---- MODULE Spec2Model ----
(***************************************************************************)
(* Grid-type resolution, attribute extraction, equality and default naming *)
(* of gridded.Grid (src/gridded/gridded.py).                               *)
(***************************************************************************)
EXTENDS Integers, Sequences, FiniteSets, TLC

VARIABLES call, grids, def_count

vars == <<call, grids, def_count>>

(***************************************************************************)
(* Bounds of the model.                                                    *)
(***************************************************************************)
\* most variables of one dataset
MaxVars == 4
\* longest node-coordinate array, most rows of a composite array
MaxN == 2
\* most Grid objects alive at once
MaxGrids == 2

(***************************************************************************)
(* Python values.  None and optional arguments: <<>> is None, <<x>> is x.  *)
(***************************************************************************)
None == <<>>
Some(x) == <<x>>
IsNone(o) == o = <<>>
Val(o) == o[1]

\* a raised exception / a returned value
Raise(exc, msg) == [ok |-> FALSE, exc |-> exc, msg |-> msg]
Return(v) == [ok |-> TRUE, value |-> v]

MsgGridType == "Specified grid_type not recognized/supported"
MsgNodes == "Unable to find node coordinates."
MsgFaces == "Unable to find faces variable"
MsgReshape == "cannot reshape array into shape (-1,2)"

\* dict update d[k] = v
Put(d, k, v) == [x \in (DOMAIN d) \cup {k} |-> IF x = k THEN v ELSE d[x]]
EmptyDict == [x \in {} |-> 0]

\* x in list
InList(x, list) == \E i \in DOMAIN list : list[i] = x

(***************************************************************************)
(* Strings.  A string is a TLA+ string; Chars gives its characters, so     *)
(* that str.lower and the substring test act on characters.                *)
(***************************************************************************)
Chars ==
  ("" :> <<>>) @@
  [ sgrid |-> <<"s","g","r","i","d">>,
    pygrid_s |-> <<"p","y","g","r","i","d","_","s">>,
    staggered |-> <<"s","t","a","g","g","e","r","e","d">>,
    curvilinear |-> <<"c","u","r","v","i","l","i","n","e","a","r">>,
    roms |-> <<"r","o","m","s">>,
    ugrid |-> <<"u","g","r","i","d">>,
    pygrid_u |-> <<"p","y","g","r","i","d","_","u">>,
    triangular |-> <<"t","r","i","a","n","g","u","l","a","r">>,
    unstructured |-> <<"u","n","s","t","r","u","c","t","u","r","e","d">>,
    notype |-> <<"n","o","t","y","p","e">>,
    ROMS |-> <<"R","O","M","S">>,
    Roms |-> <<"R","o","m","s">>,
    SGrid |-> <<"S","G","r","i","d">>,
    PyGrid_S |-> <<"P","y","G","r","i","d","_","S">>,
    Curvilinear |-> <<"C","u","r","v","i","l","i","n","e","a","r">>,
    STAGGERED |-> <<"S","T","A","G","G","E","R","E","D">>,
    UGRID |-> <<"U","G","R","I","D">>,
    UGrid |-> <<"U","G","r","i","d">>,
    PyGrid_U |-> <<"P","y","G","r","i","d","_","U">>,
    Triangular |-> <<"T","r","i","a","n","g","u","l","a","r">>,
    UNSTRUCTURED |-> <<"U","N","S","T","R","U","C","T","U","R","E","D">>,
    rom |-> <<"r","o","m">>,
    ugrids |-> <<"u","g","r","i","d","s">>,
    faces |-> <<"f","a","c","e","s">>,
    rectilinear |-> <<"r","e","c","t","i","l","i","n","e","a","r">>,
    topology |-> <<"t","o","p","o","l","o","g","y">>,
    mesh_topology |-> <<"m","e","s","h","_","t","o","p","o","l","o","g","y">>,
    grid_topology |-> <<"g","r","i","d","_","t","o","p","o","l","o","g","y">>,
    timeseries_id |-> <<"t","i","m","e","s","e","r","i","e","s","_","i","d">> ]

UpperToLower ==
  [ A |-> "a", C |-> "c", D |-> "d", E |-> "e", G |-> "g", I |-> "i",
    M |-> "m", N |-> "n", O |-> "o", P |-> "p", R |-> "r", S |-> "s",
    T |-> "t", U |-> "u", Y |-> "y" ]

\* str.lower(), on characters
Lower(cs) ==
  [i \in DOMAIN cs |->
     IF cs[i] \in DOMAIN UpperToLower THEN UpperToLower[cs[i]] ELSE cs[i]]

\* a comparison that forgets lower()
LowerIn_exact(s, names) ==
  \E i \in DOMAIN names : Chars[s] = Chars[names[i]]

\* s.lower() in names   (names: a list of strings)
LowerIn(s, names) ==
  \E i \in DOMAIN names : Lower(Chars[s]) = Chars[names[i]]

\* sub in s   (substring)
Contains(sub, s) ==
  LET a == Chars[sub]
      b == Chars[s]
  IN \E i \in 0..(Len(b) - Len(a)) : SubSeq(b, i + 1, i + Len(a)) = a

\* attributes a Python str object has (its methods); hasattr on a str
StrAttrs == {"lower", "upper", "split", "strip", "join", "format", "encode"}

(***************************************************************************)
(* Arrays: shape and row-major data, as numpy holds a contiguous array.    *)
(***************************************************************************)
Array(shape, data) == [shape |-> shape, data |-> data]

\* a[:].reshape(-1, 2)
Reshape2(a) ==
  LET size == Len(a.data)
  IN IF size % 2 = 0
     THEN Return(Array(<<size \div 2, 2>>, a.data))
     ELSE Raise("ValueError", MsgReshape)

\* v[:, j] of a two-dimensional v
Column(v, j) ==
  LET n == v.shape[1]
      c == v.shape[2]
  IN Array(<<n>>, [i \in 1..n |-> v.data[(i - 1) * c + j + 1]])

\* np.array(a).T
Transpose(a) ==
  IF Len(a.shape) # 2 THEN a
  ELSE LET r == a.shape[1]
           c == a.shape[2]
       IN Array(<<c, r>>,
                [k \in 1..(r * c) |->
                   a.data[((k - 1) % r) * c + ((k - 1) \div r) + 1]])

\* a - 1
MinusOne(a) == Array(a.shape, [k \in DOMAIN a.data |-> a.data[k] - 1])

\* a[i][j] of a two-dimensional a, zero-based
At(a, i, j) == a.data[i * a.shape[2] + j + 1]

(***************************************************************************)
(* Datasets: attributes, and an ordered mapping name -> variable.          *)
(***************************************************************************)
\* n in gf_vars
HasVar(gf_vars, n) == \E i \in DOMAIN gf_vars : gf_vars[i].name = n

\* gf_vars[n]
GetVar(gf_vars, n) ==
  gf_vars[CHOOSE i \in DOMAIN gf_vars : gf_vars[i].name = n]

\* gf_vars[n][:] ; KeyError when n is no variable
ReadVar(gf_vars, n) ==
  IF HasVar(gf_vars, n) THEN Return(GetVar(gf_vars, n).arr)
  ELSE Raise("KeyError", n)

\* get_dataset(filename, dataset): the dataset handle when given, else the
\* file opened by name
get_dataset(files, filename, dataset) ==
  IF ~IsNone(dataset) THEN Val(dataset) ELSE files[Val(filename)]

(***************************************************************************)
(* Attribute extraction.                                                   *)
(***************************************************************************)
node_attrs == <<"node_lon", "node_lat">>
node_coord_names ==
  << <<"node_lon", "node_lat">>, <<"lon", "lat">>, <<"lon_psi", "lat_psi">> >>
composite_node_names == <<"nodes", "node">>

\* the first index of a non-empty set of indices (the loop's break)
First(S) == CHOOSE i \in S : \A j \in S : i <= j

\* a loop without its break: the last complete pair wins
PairLoop_nobreak(init_args, gf_vars, attr, names) ==
  LET hits == {i \in DOMAIN names :
                 HasVar(gf_vars, names[i][1]) /\ HasVar(gf_vars, names[i][2])}
  IN IF hits = {} THEN init_args
     ELSE LET p == names[CHOOSE i \in hits : \A j \in hits : j <= i]
          IN Put(Put(init_args, attr[1], GetVar(gf_vars, p[1]).arr),
                 attr[2], GetVar(gf_vars, p[2]).arr)

\* for n1, n2 in names: if n1 in gf_vars and n2 in gf_vars: ...; break
PairLoop(init_args, gf_vars, attr, names) ==
  LET hits == {i \in DOMAIN names :
                 HasVar(gf_vars, names[i][1]) /\ HasVar(gf_vars, names[i][2])}
  IN IF hits = {} THEN init_args
     ELSE LET p == names[First(hits)]
          IN Put(Put(init_args, attr[1], GetVar(gf_vars, p[1]).arr),
                 attr[2], GetVar(gf_vars, p[2]).arr)

\* the rest of a handler once the step r has returned; an exception of r
\* propagates
Then(r, rest(_)) == IF r.ok THEN rest(r.value) ELSE r

\* v = gf_vars[n][:].reshape(-1, 2); node_lon = v[:, 0]; node_lat = v[:, 1]
SplitComposite(init_args, gf_vars, n) ==
  Then(ReadVar(gf_vars, n), LAMBDA a :
    Then(Reshape2(a), LAMBDA v :
      Return(Put(Put(init_args, node_attrs[1], Column(v, 0)),
                 node_attrs[2], Column(v, 1)))))

\* for n in composite_node_names: if n in gf_vars: ...; break
CompositeLoop(init_args, gf_vars) ==
  LET hits == {i \in DOMAIN composite_node_names :
                 HasVar(gf_vars, composite_node_names[i])}
  IN IF hits = {} THEN Return(init_args)
     ELSE SplitComposite(init_args, gf_vars, composite_node_names[First(hits)])

\* if n in node_attrs: init_args[n] = gf_vars[v][:]
NodeTopologyEntry(init_args, gf_vars, n, v) ==
  IF InList(n, node_attrs)
  THEN Then(ReadVar(gf_vars, v), LAMBDA a : Return(Put(init_args, n, a)))
  ELSE Return(init_args)

\* one pass of: for n, v in grid_topology.items()
NodeTopologyStep(init_args, gf_vars, n, v) ==
  Then(NodeTopologyEntry(init_args, gf_vars, n, v), LAMBDA args :
    IF InList(n, composite_node_names)
    THEN SplitComposite(args, gf_vars, n)
    ELSE Return(args))

RECURSIVE NodeTopologyLoop(_, _, _, _)
NodeTopologyLoop(init_args, gf_vars, grid_topology, i) ==
  IF i > Len(grid_topology) THEN Return(init_args)
  ELSE Then(NodeTopologyStep(init_args, gf_vars,
                             grid_topology[i][1], grid_topology[i][2]),
            LAMBDA args : NodeTopologyLoop(args, gf_vars, grid_topology, i + 1))

\* the branch `if grid_topology is None` of Grid._find_required_grid_attrs
NodesByConvention(init_args, gf_vars) ==
  Then(Return(PairLoop(init_args, gf_vars, node_attrs, node_coord_names)),
       LAMBDA paired :
    Then(IF node_attrs[1] \notin DOMAIN paired
         THEN CompositeLoop(paired, gf_vars)
         ELSE Return(paired),
         LAMBDA args :
      IF node_attrs[1] \notin DOMAIN args
      THEN Raise("ValueError", MsgNodes)
      ELSE Return(args)))

\* Grid._find_required_grid_attrs
Grid_find_required_grid_attrs(files, filename, dataset, grid_topology) ==
  Then(Return(get_dataset(files, filename, dataset).variables), LAMBDA gf_vars :
    Then(IF IsNone(grid_topology)
         THEN NodesByConvention(Put(EmptyDict, "filename", filename), gf_vars)
         ELSE NodeTopologyLoop(Put(EmptyDict, "filename", filename), gf_vars,
                               Val(grid_topology), 1),
         LAMBDA args : Return([init_args |-> args, gf_vars |-> gf_vars])))

\* dict.get(k) on the topology mapping: None when k is no key
TopologyGet(grid_topology, k) ==
  LET hits == {i \in DOMAIN grid_topology : grid_topology[i][1] = k}
  IN IF hits = {} THEN None ELSE Some(grid_topology[First(hits)][2])

\* the values of the mapping taken for its keys
TopologyKeys_values(grid_topology) ==
  {grid_topology[i][2] : i \in DOMAIN grid_topology}

\* grid_topology.keys()
TopologyKeys(grid_topology) ==
  {grid_topology[i][1] : i \in DOMAIN grid_topology}

face_attrs == <<"faces">>
default_face_var_names == <<"faces", "tris", "nv", "ele">>

\* the transpose without the shift to zero-based indices
FixFaces_noshift(faces) ==
  IF faces.shape[1] = 3 THEN Transpose(faces) ELSE faces

\* if faces.shape[0] == 3: faces = ascontiguousarray(array(faces).T - 1)
FixFaces(faces) ==
  IF faces.shape[1] = 3 THEN MinusOne(Transpose(faces)) ELSE faces

\* face_var_names of Grid_U._find_required_grid_attrs
FaceVarNames(grid_topology) ==
  IF ~IsNone(grid_topology)
  THEN [i \in DOMAIN face_attrs |-> TopologyGet(Val(grid_topology), face_attrs[i])]
  ELSE [i \in DOMAIN default_face_var_names |-> Some(default_face_var_names[i])]

\* a face loop that returns without faces instead of raising
FaceLoop_noraise(init_args, gf_vars, face_var_names) ==
  LET hits == {i \in DOMAIN face_var_names :
                 /\ ~IsNone(face_var_names[i])
                 /\ HasVar(gf_vars, Val(face_var_names[i]))}
  IN Return([init_args |->
               IF hits = {} THEN init_args
               ELSE Put(init_args, face_attrs[1],
                        FixFaces(GetVar(gf_vars,
                                        Val(face_var_names[First(hits)])).arr)),
             gf_vars |-> gf_vars])

\* for n in face_var_names: if n in gf_vars: ...; break, and what follows
FaceLoop(init_args, gf_vars, face_var_names) ==
  LET hits == {i \in DOMAIN face_var_names :
                 /\ ~IsNone(face_var_names[i])
                 /\ HasVar(gf_vars, Val(face_var_names[i]))}
  IN IF hits = {} THEN Raise("ValueError", MsgFaces)
     ELSE Return([init_args |->
                    Put(init_args, face_attrs[1],
                        FixFaces(GetVar(gf_vars,
                                        Val(face_var_names[First(hits)])).arr)),
                  gf_vars |-> gf_vars])

\* Grid_U._find_required_grid_attrs
Grid_U_find_required_grid_attrs(files, filename, dataset, grid_topology) ==
  Then(Grid_find_required_grid_attrs(files, filename, dataset, grid_topology),
       LAMBDA sup : FaceLoop(sup.init_args, sup.gf_vars, FaceVarNames(grid_topology)))

center_attrs == <<"center_lon", "center_lat">>
edge1_attrs == <<"edge1_lon", "edge1_lat">>
edge2_attrs == <<"edge2_lon", "edge2_lat">>
center_coord_names == << <<"center_lon", "center_lat">>, <<"lon_rho", "lat_rho">> >>
edge1_coord_names == << <<"edge1_lon", "edge1_lat">>, <<"lon_u", "lat_u">> >>
edge2_coord_names == << <<"edge2_lon", "edge2_lat">>, <<"lon_v", "lat_v">> >>

\* the loop over (center, edge1, edge2) of Grid_S._find_required_grid_attrs
StructuredByConvention(init_args, gf_vars) ==
  PairLoop(PairLoop(PairLoop(init_args, gf_vars, center_attrs, center_coord_names),
                    gf_vars, edge1_attrs, edge1_coord_names),
           gf_vars, edge2_attrs, edge2_coord_names)

RECURSIVE StructuredTopologyLoop(_, _, _, _)
StructuredTopologyLoop(init_args, gf_vars, grid_topology, i) ==
  IF i > Len(grid_topology) THEN init_args
  ELSE StructuredTopologyLoop(
         IF /\ InList(grid_topology[i][1], center_attrs \o edge1_attrs \o edge2_attrs)
            /\ HasVar(gf_vars, grid_topology[i][2])
         THEN Put(init_args, grid_topology[i][1],
                  GetVar(gf_vars, grid_topology[i][2]).arr)
         ELSE init_args,
         gf_vars, grid_topology, i + 1)

\* Grid_S._find_required_grid_attrs
Grid_S_find_required_grid_attrs(files, filename, dataset, grid_topology) ==
  Then(Grid_find_required_grid_attrs(files, filename, dataset, grid_topology),
       LAMBDA sup :
    Return([init_args |->
              IF IsNone(grid_topology)
              THEN StructuredByConvention(sup.init_args, sup.gf_vars)
              ELSE StructuredTopologyLoop(sup.init_args, sup.gf_vars,
                                          Val(grid_topology), 1),
            gf_vars |-> sup.gf_vars]))

(***************************************************************************)
(* Grid-type resolution.                                                   *)
(***************************************************************************)
sgrid_names == <<"sgrid", "pygrid_s", "staggered", "curvilinear", "roms">>
ugrid_names == <<"ugrid", "pygrid_u", "triangular", "unstructured">>

\* hasattr(v, name) for the object a loop variable holds: a str has only
\* the str attributes, a variable object has its own attributes
HasAttr(obj, name) ==
  IF obj.kind = "str" THEN name \in StrAttrs ELSE name \in DOMAIN obj.attrs

\* `for v in gf.variables`: iterating the mapping yields its keys, the
\* variable names
IterVariables(gf) ==
  [i \in DOMAIN gf.variables |-> [kind |-> "str", value |-> gf.variables[i].name]]

\* Grid._find_topology_var
_find_topology_var(files, filename, dataset) ==
  LET gts == SelectSeq(IterVariables(get_dataset(files, filename, dataset)),
               LAMBDA v : /\ HasAttr(v, "cf_role")
                          /\ Contains("topology", v.attrs["cf_role"]))
  IN IF Len(gts) # 0 THEN Some(gts[1]) ELSE None

\* try: Grid_U._find_required_grid_attrs(None, dataset); return Grid_U
\* except ValueError: Grid_S._find_required_grid_attrs(None, dataset); return Grid_S
TryUnstructured(files, dataset) ==
  LET handle(u) ==
        IF u.ok THEN Return("Grid_U")
        ELSE IF u.exc # "ValueError" THEN u
        ELSE Then(Grid_S_find_required_grid_attrs(files, None, Some(dataset), None),
                  LAMBDA s : Return("Grid_S"))
  IN handle(Grid_U_find_required_grid_attrs(files, None, Some(dataset), None))

\* the branch `topology is not None` / else of Grid._get_grid_type
FromTopologyVar(files, dataset, topology) ==
  IF ~IsNone(topology)
  THEN IF /\ HasAttr(Val(topology), "node_coordinates")
          /\ ~HasAttr(Val(topology), "node_dimensions")
       THEN Return("Grid_U")
       ELSE Return("Grid_S")
  ELSE TryUnstructured(files, dataset)

\* Grid._get_grid_type
_get_grid_type(files, dataset, grid_topology, grid_type) ==
  IF ~IsNone(grid_type)
  THEN IF LowerIn(Val(grid_type), sgrid_names) THEN Return("Grid_S")
       ELSE IF LowerIn(Val(grid_type), ugrid_names) THEN Return("Grid_U")
       ELSE Raise("ValueError", MsgGridType)
  ELSE IF ~IsNone(grid_topology)
  THEN IF \/ "faces" \in TopologyKeys(Val(grid_topology))
          \/ LowerIn(IF IsNone(TopologyGet(Val(grid_topology), "grid_type"))
                     THEN "notype"
                     ELSE Val(TopologyGet(Val(grid_topology), "grid_type")),
                     ugrid_names)
       THEN Return("Grid_U")
       ELSE Return("Grid_S")
  ELSE IF /\ "grid_type" \in DOMAIN dataset.attrs
          /\ InList(dataset.attrs["grid_type"], sgrid_names \o ugrid_names)
  THEN IF LowerIn(dataset.attrs["grid_type"], ugrid_names)
       THEN Return("Grid_U")
       ELSE Return("Grid_S")
  ELSE FromTopologyVar(files, dataset,
                       _find_topology_var(files, None, Some(dataset)))

(***************************************************************************)
(* The inputs: datasets, topology mappings and grid_type strings.          *)
(***************************************************************************)
Pool ==
  << "node_lon", "node_lat", "lon", "lat", "lon_psi", "lat_psi",
     "nodes", "node", "faces", "tris", "nv", "ele", "xy", "x", "y", "conn",
     "center_lon", "center_lat", "lon_rho", "lat_rho", "lon_u", "lat_u",
     "edge2_lon", "edge2_lat", "lon_v", "lat_v", "mesh" >>

NameCode(n) == CHOOSE i \in DOMAIN Pool : Pool[i] = n

CompositeNames == {"nodes", "node", "xy"}
FaceNames == {"faces", "tris", "nv", "ele", "conn"}
Flavors == {"N2_3N", "2N_N3", "N3_N4"}

\* the shape of variable `name` in a dataset of n nodes
ShapeOf(name, n, flavor) ==
  IF name \in CompositeNames
  THEN (CASE flavor = "N2_3N" -> <<n, 2>>
          [] flavor = "2N_N3" -> <<2, n>>
          [] OTHER -> <<n, 3>>)
  ELSE IF name \in FaceNames
  THEN (CASE flavor = "N2_3N" -> <<3, n>>
          [] flavor = "2N_N3" -> <<n, 3>>
          [] OTHER -> <<n, 4>>)
  ELSE <<n>>

Size(shape) == IF Len(shape) = 1 THEN shape[1] ELSE shape[1] * shape[2]

\* the array of variable `name`: every entry differs from every other entry
\* of the dataset
ArrayOf(name, n, flavor) ==
  LET shape == ShapeOf(name, n, flavor)
  IN Array(shape, [k \in 1..Size(shape) |-> NameCode(name) * 100 + k])

Variable(name, attrs, n, flavor) ==
  [kind |-> "var", name |-> name, attrs |-> attrs, arr |-> ArrayOf(name, n, flavor)]

TopologyVarAttrs ==
  [ none |-> EmptyDict,
    ugrid |-> [cf_role |-> "mesh_topology", node_coordinates |-> "lon lat"],
    sgrid |-> [cf_role |-> "grid_topology", node_coordinates |-> "lon lat",
               node_dimensions |-> "xi eta"],
    other |-> [cf_role |-> "timeseries_id", node_coordinates |-> "lon lat"] ]

\* a dataset: the variables `names` in Pool order, variable "mesh" carrying
\* the attributes TopologyVarAttrs[tv], and the dataset attributes `attrs`
MakeDataset(names, n, flavor, tv, attrs) ==
  [ attrs |-> attrs,
    variables |->
      [i \in 1..Cardinality(names) |->
         LET name == SelectSeq(Pool, LAMBDA x : x \in names)[i]
         IN Variable(name,
                     IF name = "mesh" THEN TopologyVarAttrs[tv] ELSE EmptyDict,
                     n, flavor)] ]

UpTo(pool, k) == {S \in SUBSET pool : Cardinality(S) <= k}

DatasetAttrs ==
  { EmptyDict, [grid_type |-> "ugrid"], [grid_type |-> "roms"],
    [grid_type |-> "UGRID"], [grid_type |-> "rectilinear"] }

ResolvePool == {"lon", "lat", "nodes", "nv", "faces"}

ResolveDatasetsOver(nameSets) ==
  { MakeDataset(names \cup (IF tv = "none" THEN {} ELSE {"mesh"}), 1, flavor, tv, a) :
      names \in nameSets,
      flavor \in {"N2_3N", "N3_N4"},
      tv \in DOMAIN TopologyVarAttrs,
      a \in DatasetAttrs }

\* the datasets of the calls that leave grid_type and grid_topology out
ResolveDatasets == ResolveDatasetsOver(UpTo(ResolvePool, MaxVars))

\* the datasets of the calls that pass grid_type or grid_topology
HintedDatasets ==
  ResolveDatasetsOver({ {}, {"lon", "lat"}, {"lon", "lat", "nv"}, {"nodes", "faces"} })

\* topology mappings: ordered (key, value) pairs
ResolveTopologies ==
  { None,
    Some(<<>>),
    Some(<< <<"faces", "nv">> >>),
    Some(<< <<"node_lon", "lon">>, <<"node_lat", "lat">> >>),
    Some(<< <<"grid_type", "UGrid">> >>),
    Some(<< <<"grid_type", "roms">>, <<"node_lon", "lon">> >>),
    Some(<< <<"grid_type", "ugrids">> >>),
    Some(<< <<"grid_type", "sgrid">>, <<"faces", "nv">> >>) }

GridTypes ==
  { None } \cup
  { Some(g) : g \in
      { "roms", "ROMS", "Roms", "sgrid", "SGrid", "PyGrid_S", "STAGGERED",
        "Curvilinear", "ugrid", "UGRID", "PyGrid_U", "Triangular",
        "UNSTRUCTURED", "rom", "ugrids", "rectilinear", "" } }

NoFiles == EmptyDict

(***************************************************************************)
(* Grid-type resolution as a state machine: a call of Grid._get_grid_type  *)
(* with its arguments, then its outcome.                                   *)
(***************************************************************************)
ResolveCalls(datasets, topologies, types) ==
  { [op |-> "_get_grid_type", dataset |-> d, grid_topology |-> t,
     grid_type |-> g, result |-> None] :
      d \in datasets, t \in topologies, g \in types }

InitResolve ==
  /\ \/ call \in ResolveCalls(ResolveDatasets, {None}, {None})
     \/ call \in ResolveCalls(HintedDatasets, ResolveTopologies \ {None}, GridTypes)
     \/ call \in ResolveCalls(HintedDatasets, {None}, GridTypes \ {None})
  /\ grids = <<>>
  /\ def_count = [Grid |-> 0]

GetGridType ==
  /\ call.op = "_get_grid_type"
  /\ IsNone(call.result)
  /\ call' = [call EXCEPT !.result =
                Some(_get_grid_type(NoFiles, call.dataset, call.grid_topology,
                                    call.grid_type))]
  /\ UNCHANGED <<grids, def_count>>

NextResolve == GetGridType

SpecResolve == InitResolve /\ [][NextResolve]_vars

(***************************************************************************)
(* Claims about Grid._get_grid_type (under SpecResolve).                   *)
(***************************************************************************)
ResolveDone == call.op = "_get_grid_type" /\ ~IsNone(call.result)
Result == Val(call.result)

\* what each explicit grid_type string is to give
C1_Expected ==
  ("" :> "error") @@
  [ roms |-> "Grid_S", ROMS |-> "Grid_S", Roms |-> "Grid_S", sgrid |-> "Grid_S",
    SGrid |-> "Grid_S", PyGrid_S |-> "Grid_S", STAGGERED |-> "Grid_S",
    Curvilinear |-> "Grid_S", ugrid |-> "Grid_U", UGRID |-> "Grid_U",
    PyGrid_U |-> "Grid_U", Triangular |-> "Grid_U", UNSTRUCTURED |-> "Grid_U",
    rom |-> "error", ugrids |-> "error", rectilinear |-> "error" ]

\* C1: with an explicit grid_type string the outcome depends on that string
\* alone: any casing of a structured alias gives Grid_S, any casing of an
\* unstructured alias gives Grid_U, every other string fails with the
\* unsupported-grid-type error, whatever the topology mapping and the dataset.
C1_ExplicitTypeDecides ==
  (ResolveDone /\ ~IsNone(call.grid_type)) =>
    LET e == C1_Expected[Val(call.grid_type)]
    IN IF e = "error" THEN Result = Raise("ValueError", MsgGridType)
       ELSE Result = Return(e)

C1_Witness ==
  /\ ResolveDone
  /\ call.grid_type = Some("ROMS")
  /\ call.grid_topology = Some(<< <<"faces", "nv">> >>)
  /\ "grid_type" \in DOMAIN call.dataset.attrs
  /\ call.dataset.attrs["grid_type"] = "ugrid"
  /\ \E i \in DOMAIN call.dataset.variables :
       "cf_role" \in DOMAIN call.dataset.variables[i].attrs
  /\ Result = Return("Grid_S")

UnstructuredAliases == {"ugrid", "pygrid_u", "triangular", "unstructured"}
StructuredAliases == {"sgrid", "pygrid_s", "staggered", "curvilinear", "roms"}

\* s, in any casing, is one of the aliases
MatchesAlias(s, aliases) == \E a \in aliases : Lower(Chars[s]) = Chars[a]

\* C2: with no explicit grid_type and a topology mapping given, the outcome
\* is Grid_U when the mapping has a 'faces' key or a 'grid_type' entry that
\* matches an unstructured alias, and Grid_S otherwise, whatever the dataset.
C2_TopologyMappingDecides ==
  (ResolveDone /\ IsNone(call.grid_type) /\ ~IsNone(call.grid_topology)) =>
    LET t == Val(call.grid_topology)
        u == \/ \E i \in DOMAIN t : t[i][1] = "faces"
             \/ \E i \in DOMAIN t : /\ t[i][1] = "grid_type"
                                    /\ MatchesAlias(t[i][2], UnstructuredAliases)
    IN Result = Return(IF u THEN "Grid_U" ELSE "Grid_S")

C2_Witness ==
  /\ ResolveDone
  /\ IsNone(call.grid_type)
  /\ call.grid_topology = Some(<< <<"grid_type", "UGrid">> >>)
  /\ "grid_type" \in DOMAIN call.dataset.attrs
  /\ call.dataset.attrs["grid_type"] = "roms"
  /\ Result = Return("Grid_U")

\* the variables of the dataset whose cf_role attribute contains 'topology'
TopologyVars(dataset) ==
  {i \in DOMAIN dataset.variables :
     /\ "cf_role" \in DOMAIN dataset.variables[i].attrs
     /\ Contains("topology", dataset.variables[i].attrs["cf_role"])}

\* the dataset's grid_type attribute is one the resolver acts on
RecognisedAttr(dataset) ==
  /\ "grid_type" \in DOMAIN dataset.attrs
  /\ InList(dataset.attrs["grid_type"], sgrid_names \o ugrid_names)

\* the dataset has no grid_type attribute naming an alias in any casing
NoAliasAttr(dataset) ==
  \/ "grid_type" \notin DOMAIN dataset.attrs
  \/ ~MatchesAlias(dataset.attrs["grid_type"],
                   UnstructuredAliases \cup StructuredAliases)

\* C3: with no explicit type, no topology mapping and no recognised dataset
\* attribute, a dataset holding a topology variable is resolved from that
\* variable: Grid_U when it has node_coordinates and no node_dimensions,
\* Grid_S otherwise.
C3_TopologyVariableDecides ==
  ( /\ ResolveDone
    /\ IsNone(call.grid_type)
    /\ IsNone(call.grid_topology)
    /\ NoAliasAttr(call.dataset)
    /\ TopologyVars(call.dataset) # {} ) =>
    LET v == call.dataset.variables[First(TopologyVars(call.dataset))]
    IN Result = Return(IF /\ "node_coordinates" \in DOMAIN v.attrs
                          /\ "node_dimensions" \notin DOMAIN v.attrs
                       THEN "Grid_U" ELSE "Grid_S")

\* names found by convention in the dataset
PairPresent(dataset) ==
  \E i \in DOMAIN node_coord_names :
    /\ HasVar(dataset.variables, node_coord_names[i][1])
    /\ HasVar(dataset.variables, node_coord_names[i][2])
CompositePresent(dataset) ==
  \E i \in DOMAIN composite_node_names :
    HasVar(dataset.variables, composite_node_names[i])
FacePresent(dataset) ==
  \E n \in {"faces", "tris", "nv", "ele"} : HasVar(dataset.variables, n)
\* node coordinates are found: a complete pair, or else a composite variable
\* that splits in two columns
NodesFound(dataset) ==
  \/ PairPresent(dataset)
  \/ /\ HasVar(dataset.variables, "nodes")
     /\ Len(GetVar(dataset.variables, "nodes").arr.data) % 2 = 0
  \/ /\ ~HasVar(dataset.variables, "nodes")
     /\ HasVar(dataset.variables, "node")
     /\ Len(GetVar(dataset.variables, "node").arr.data) % 2 = 0

\* C4: in the last-resort step the outcome is Grid_U when node coordinates
\* and a face variable are found by naming convention, Grid_S when node
\* coordinates are found and no face variable is, and the node-coordinates
\* error (not the faces error) when no node-coordinate name exists, with or
\* without a face variable.
C4_LastResort ==
  ( /\ ResolveDone
    /\ IsNone(call.grid_type)
    /\ IsNone(call.grid_topology)
    /\ ~RecognisedAttr(call.dataset)
    /\ TopologyVars(call.dataset) = {} ) =>
    /\ (NodesFound(call.dataset) /\ FacePresent(call.dataset))
         => Result = Return("Grid_U")
    /\ (NodesFound(call.dataset) /\ ~FacePresent(call.dataset))
         => Result = Return("Grid_S")
    /\ (~PairPresent(call.dataset) /\ ~CompositePresent(call.dataset))
         => Result = Raise("ValueError", MsgNodes)

C4_Witness ==
  /\ ResolveDone
  /\ IsNone(call.grid_type)
  /\ IsNone(call.grid_topology)
  /\ ~RecognisedAttr(call.dataset)
  /\ TopologyVars(call.dataset) = {}
  /\ FacePresent(call.dataset)
  /\ ~PairPresent(call.dataset) /\ ~CompositePresent(call.dataset)
  /\ Result = Raise("ValueError", MsgNodes)

(***************************************************************************)
(* Attribute extraction as a state machine: a call of                      *)
(* cls._find_required_grid_attrs with its arguments, then its outcome.     *)
(***************************************************************************)
Layouts == {[n |-> n, flavor |-> f] : n \in 1..MaxN, f \in Flavors}

GridPool ==
  {"node_lon", "node_lat", "lon", "lat", "lon_psi", "lat_psi", "nodes", "node",
   "xy", "x", "y"}
Grid_UPool == {"lon", "lat", "nodes", "faces", "tris", "nv", "ele", "conn", "xy"}
Grid_SPool ==
  {"lon", "lat", "center_lon", "center_lat", "lon_rho", "lat_rho", "lon_u",
   "lat_u", "lon_v", "lat_v"}

DatasetsOver(pool) ==
  { MakeDataset(names, l.n, l.flavor, "none", EmptyDict) :
      names \in UpTo(pool, MaxVars), l \in Layouts }

AttrTopologies ==
  { None,
    Some(<<>>),
    Some(<< <<"node_lon", "x">>, <<"node_lat", "y">> >>),
    Some(<< <<"node_lon", "lon">>, <<"node_lat", "lat">>, <<"faces", "conn">> >>),
    Some(<< <<"nodes", "xy">> >>),
    Some(<< <<"node", "xy">>, <<"faces", "nv">> >>),
    Some(<< <<"nodes", "nodes">>, <<"faces", "faces">> >>),
    Some(<< <<"faces", "conn">> >>),
    Some(<< <<"grid_type", "ugrid">>, <<"faces", "nv">>, <<"node_lon", "lon">> >>),
    Some(<< <<"node_lon", "lon">>, <<"node_lat", "lat">>,
            <<"center_lon", "lon_rho">>, <<"center_lat", "lat_rho">>,
            <<"edge1_lon", "lon_u">> >>) }

AttrCalls(cls, pool) ==
  { [op |-> "_find_required_grid_attrs", cls |-> cls, filename |-> None,
     dataset |-> Some(d), grid_topology |-> t, result |-> None] :
      d \in DatasetsOver(pool), t \in AttrTopologies }

InitAttrs ==
  /\ \/ call \in AttrCalls("Grid", GridPool)
     \/ call \in AttrCalls("Grid_U", Grid_UPool)
     \/ call \in AttrCalls("Grid_S", Grid_SPool)
  /\ grids = <<>>
  /\ def_count = [Grid |-> 0]

AttrsPending(cls) ==
  /\ call.op = "_find_required_grid_attrs"
  /\ call.cls = cls
  /\ IsNone(call.result)

FindRequiredGridAttrs ==
  /\ AttrsPending("Grid")
  /\ call' = [call EXCEPT !.result =
                Some(Grid_find_required_grid_attrs(NoFiles, call.filename,
                       call.dataset, call.grid_topology))]
  /\ UNCHANGED <<grids, def_count>>

FindRequiredGridAttrs_U ==
  /\ AttrsPending("Grid_U")
  /\ call' = [call EXCEPT !.result =
                Some(Grid_U_find_required_grid_attrs(NoFiles, call.filename,
                       call.dataset, call.grid_topology))]
  /\ UNCHANGED <<grids, def_count>>

FindRequiredGridAttrs_S ==
  /\ AttrsPending("Grid_S")
  /\ call' = [call EXCEPT !.result =
                Some(Grid_S_find_required_grid_attrs(NoFiles, call.filename,
                       call.dataset, call.grid_topology))]
  /\ UNCHANGED <<grids, def_count>>

NextAttrs ==
  \/ FindRequiredGridAttrs
  \/ FindRequiredGridAttrs_U
  \/ FindRequiredGridAttrs_S

SpecAttrs == InitAttrs /\ [][NextAttrs]_vars

(***************************************************************************)
(* Claims about _find_required_grid_attrs (under SpecAttrs).               *)
(***************************************************************************)
AttrsDone == call.op = "_find_required_grid_attrs" /\ ~IsNone(call.result)
SourceVars == Val(call.dataset).variables
\* the source array of the variable named n
Source(n) ==
  SourceVars[CHOOSE i \in DOMAIN SourceVars : SourceVars[i].name = n].arr
Present(n) == \E i \in DOMAIN SourceVars : SourceVars[i].name = n
InitArgs == Result.value.init_args

ClaimedPairs == << <<"node_lon", "node_lat">>, <<"lon", "lat">>, <<"lon_psi", "lat_psi">> >>
CompletePairs == {i \in 1..3 : Present(ClaimedPairs[i][1]) /\ Present(ClaimedPairs[i][2])}

\* lon and lat are columns 0 and 1 of the (N,2) array src
SplitOf(src, lon, lat) ==
  /\ lon.shape = <<src.shape[1]>>
  /\ lat.shape = <<src.shape[1]>>
  /\ \A i \in 0..(src.shape[1] - 1) :
       /\ lon.data[i + 1] = At(src, i, 0)
       /\ lat.data[i + 1] = At(src, i, 1)

\* C5: with no topology mapping, node_lon/node_lat are the two source arrays
\* of the first pair among (node_lon,node_lat), (lon,lat), (lon_psi,lat_psi)
\* that is complete in the dataset; the composite names 'nodes', then 'node',
\* are used only when no pair is complete, and then column 0 of the (N,2)
\* array is node_lon and column 1 is node_lat.
C5_NodePairsThenComposite ==
  (AttrsDone /\ IsNone(call.grid_topology)) =>
    /\ CompletePairs # {} =>
         /\ call.cls = "Grid" => Result.ok
         /\ Result.ok =>
              /\ InitArgs["node_lon"] = Source(ClaimedPairs[First(CompletePairs)][1])
              /\ InitArgs["node_lat"] = Source(ClaimedPairs[First(CompletePairs)][2])
    /\ (CompletePairs = {} /\ (Present("nodes") \/ Present("node"))) =>
         LET src == IF Present("nodes") THEN Source("nodes") ELSE Source("node")
         IN (Len(src.shape) = 2 /\ src.shape[2] = 2) =>
              /\ call.cls = "Grid" => Result.ok
              /\ Result.ok =>
                   SplitOf(src, InitArgs["node_lon"], InitArgs["node_lat"])

C5_Witness ==
  /\ AttrsDone
  /\ IsNone(call.grid_topology)
  /\ Present("node_lon") /\ ~Present("node_lat")
  /\ Present("lon") /\ Present("lat") /\ Present("nodes")
  /\ Result.ok
  /\ InitArgs["node_lon"] = Source("lon")

C5_WitnessComposite ==
  /\ AttrsDone
  /\ IsNone(call.grid_topology)
  /\ CompletePairs = {}
  /\ Present("lon") /\ ~Present("nodes") /\ Present("node")
  /\ Source("node").shape = <<2, 2>>
  /\ Result.ok
  /\ InitArgs["node_lat"].data = <<At(Source("node"), 0, 1), At(Source("node"), 1, 1)>>

\* C6: node-coordinate resolution never returns a mapping that lacks node
\* coordinates: on both paths (topology mapping absent or present) it either
\* resolves node_lon and node_lat or fails with the node-coordinates error.
C6_NodesResolvedOrError ==
  AttrsDone =>
    /\ Result.ok => {"node_lon", "node_lat"} \subseteq DOMAIN InitArgs
    /\ ( /\ IsNone(call.grid_topology)
         /\ CompletePairs = {}
         /\ ~Present("nodes") /\ ~Present("node") )
         => Result = Raise("ValueError", MsgNodes)
    /\ ( /\ ~IsNone(call.grid_topology)
         /\ \A i \in DOMAIN Val(call.grid_topology) :
              Val(call.grid_topology)[i][1]
                \notin {"node_lon", "node_lat", "nodes", "node"} )
         => Result = Raise("ValueError", MsgNodes)

\* the entries of the topology mapping about node coordinates
NodeEntries(t) ==
  {i \in DOMAIN t : t[i][1] \in {"node_lon", "node_lat", "nodes", "node"}}

\* C7: with a topology mapping present every logical attribute is read from
\* the dataset variable the mapping names as its VALUE: node_lon/node_lat
\* from the mapped variables, a composite entry from the variable mapped to
\* it, split column 0 -> node_lon, column 1 -> node_lat.
C7_TopologyValuesRead ==
  ( /\ AttrsDone
    /\ ~IsNone(call.grid_topology)
    /\ call.cls = "Grid"
    /\ \A i \in NodeEntries(Val(call.grid_topology)) :
         Present(Val(call.grid_topology)[i][2]) ) =>
    LET t == Val(call.grid_topology)
    IN /\ Result.ok
       /\ \A i \in NodeEntries(t) :
            IF t[i][1] \in {"node_lon", "node_lat"}
            THEN (~\E j \in NodeEntries(t) : t[j][1] \in {"nodes", "node"})
                   => InitArgs[t[i][1]] = Source(t[i][2])
            ELSE LET src == Source(t[i][2])
                 IN (Len(src.shape) = 2 /\ src.shape[2] = 2)
                      => SplitOf(src, InitArgs["node_lon"], InitArgs["node_lat"])

\* the candidate face names of the call, in order
FaceCandidates ==
  IF IsNone(call.grid_topology) THEN <<"faces", "tris", "nv", "ele">>
  ELSE LET t == Val(call.grid_topology)
       IN SelectSeq([i \in DOMAIN t |-> IF t[i][1] = "faces" THEN t[i][2] ELSE ""],
                    LAMBDA n : n # "")
FacesPresent == {i \in DOMAIN FaceCandidates : Present(FaceCandidates[i])}
FaceSource == Source(FaceCandidates[First(FacesPresent)])

\* the face array of the outcome is the source, transposed and shifted to
\* zero-based when the source is (3,N), unchanged otherwise
FacesAsClaimed ==
  (Result.ok /\ FacesPresent # {}) =>
    LET src == FaceSource
        out == InitArgs["faces"]
    IN IF src.shape[1] = 3
       THEN /\ out.shape = <<src.shape[2], 3>>
            /\ \A i \in 0..(src.shape[2] - 1) : \A j \in 0..2 :
                 At(out, i, j) = At(src, j, i) - 1
       ELSE out = src

\* C8 as stated: the face array is transposed and shifted when (3,N) and
\* unchanged otherwise, and when no candidate name is present the call fails
\* with the faces-not-found error.
C8_Original ==
  (AttrsDone /\ call.cls = "Grid_U") =>
    /\ FacesAsClaimed
    /\ FacesPresent = {} => Result = Raise("ValueError", MsgFaces)

\* the outcome of the shared node-coordinate step of the call
SharedStep ==
  Grid_find_required_grid_attrs(NoFiles, call.filename, call.dataset,
                                call.grid_topology)

\* C8 amended: the face array is transposed and shifted when (3,N) and
\* unchanged otherwise; when no candidate name is present the call fails
\* with the faces-not-found error if the shared node-coordinate step
\* succeeded, and with that step's own error if it failed.
C8_FacesResolved ==
  (AttrsDone /\ call.cls = "Grid_U") =>
    /\ FacesAsClaimed
    /\ FacesPresent = {} =>
         Result = IF SharedStep.ok THEN Raise("ValueError", MsgFaces)
                  ELSE SharedStep

C8_Witness ==
  /\ AttrsDone
  /\ call.cls = "Grid_U"
  /\ Result.ok
  /\ FacesPresent # {}
  /\ FaceSource.shape = <<3, 2>>
  /\ InitArgs["faces"].shape = <<2, 3>>
  /\ At(InitArgs["faces"], 1, 2) = At(FaceSource, 2, 1) - 1

(***************************************************************************)
(* Grid objects: construction, default names, reconstruction, equality.    *)
(* A Grid object is its class, its attributes, and (for the record only)   *)
(* how it was made and whether its name is the generated default.          *)
(***************************************************************************)
\* Grid.__new__: the class of the object made by cls(**kwargs)
Grid_new(cls, kwargs) ==
  IF cls # "Grid_U" /\ cls # "Grid_S"
  THEN IF "faces" \in DOMAIN kwargs THEN "Grid_U" ELSE "Grid_S"
  ELSE cls

\* type(self)._def_count: the class's own attribute, else the one of Grid
ClassCount(counts, cls) ==
  IF cls \in DOMAIN counts THEN counts[cls] ELSE counts["Grid"]

\* the base classes' __init__(**kwargs): the grid owns the arrays it is given
BaseInit(kwargs) == kwargs

\* self.__class__.__name__ + '_' + str(type(self)._def_count)
DefaultName(counts, cls) == cls \o "_" \o ToString(ClassCount(counts, cls))

\* Grid.__init__ on a new object of class cls; kwargs without filename
Grid_init(counts, cls, filename, kwargs) ==
  LET a0 == BaseInit(kwargs)
      a1 == Put(a0, "name", IF "name" \in DOMAIN kwargs THEN kwargs["name"]
                            ELSE DefaultName(counts, cls))
      a2 == Put(Put(a1, "obj_type", "Grid"), "filename", filename)
  IN [ grid |-> [cls |-> cls, attrs |-> a2, via |-> "__init__",
                 auto_name |-> "name" \notin DOMAIN kwargs],
       counts |-> Put(counts, cls, ClassCount(counts, cls) + 1) ]

\* cls(**kwargs): __new__ then __init__; filename is the named parameter
Construct(counts, cls, kwargs) ==
  Grid_init(counts, Grid_new(cls, kwargs),
            IF "filename" \in DOMAIN kwargs THEN kwargs["filename"] ELSE None,
            [k \in (DOMAIN kwargs) \ {"filename"} |-> kwargs[k]])

\* init_args as keyword arguments: arrays held as attribute values
AsKwargs(init_args) ==
  [k \in DOMAIN init_args |->
     IF k = "filename" THEN init_args[k] ELSE Some(init_args[k])]

\* cls._find_required_grid_attrs, by class
FindRequired(files, cls, filename, dataset, grid_topology) ==
  IF cls = "Grid_U"
  THEN Grid_U_find_required_grid_attrs(files, filename, dataset, grid_topology)
  ELSE Grid_S_find_required_grid_attrs(files, filename, dataset, grid_topology)

\* Grid.from_netCDF
from_netCDF(files, counts, filename, dataset, grid_type, grid_topology) ==
  IF IsNone(filename) /\ IsNone(dataset)
  THEN Raise("ValueError", "No filename or dataset provided")
  ELSE Then(_get_grid_type(files, get_dataset(files, filename, dataset),
                           grid_topology, grid_type), LAMBDA cls :
         Then(FindRequired(files, cls, filename, dataset, grid_topology),
              LAMBDA found :
           Return(Construct(counts, cls, AsKwargs(found.init_args)))))

\* _restore_attr_from_save: the saved attributes are laid over the new object
_restore_attr_from_save(grid, dict_) ==
  LET keys == (DOMAIN dict_) \ {"id"}
  IN [grid EXCEPT
        !.attrs = [k \in (DOMAIN grid.attrs) \cup keys |->
                     IF k \in keys THEN dict_[k] ELSE grid.attrs[k]],
        !.auto_name = grid.auto_name /\ "name" \notin keys]

\* rv._id = dict_.pop('id') if 'id' in dict_ else rv.id
SetId(rv, dict_) ==
  [rv EXCEPT !.attrs = Put(rv.attrs, "_id",
                           IF "id" \in DOMAIN dict_ THEN dict_["id"] ELSE "id"),
             !.via = "new_from_dict"]

\* rv.__class__._def_count -= 1
Decrement(counts, cls) == Put(counts, cls, ClassCount(counts, cls) - 1)

\* dict_.pop('json_')
PopJson(dict_) == [k \in (DOMAIN dict_) \ {"json_"} |-> dict_[k]]

\* Grid.new_from_dict
new_from_dict(files, counts, dict_) ==
  Then(from_netCDF(files, counts, PopJson(dict_)["filename"], None, None, None),
       LAMBDA made :
    Return([ grid |-> SetId(_restore_attr_from_save(made.grid, PopJson(dict_)),
                            PopJson(dict_)),
             counts |-> Decrement(made.counts, made.grid.cls) ]))

\* np.any(s != s2) for arrays of one shape
AnyDiffer(s, s2) == \E k \in DOMAIN s.data : s.data[k] # s2.data[k]

\* one pass of the loop of Grid.__eq__ over n in ('nodes', 'faces')
AttrDiffers(self, o, n) ==
  /\ n \in DOMAIN self.attrs /\ n \in DOMAIN o.attrs
  /\ ~IsNone(self.attrs[n]) /\ ~IsNone(o.attrs[n])
  /\ LET s == Val(self.attrs[n])
         s2 == Val(o.attrs[n])
     IN s.shape # s2.shape \/ AnyDiffer(s, s2)

\* an equality that looks at faces alone
Grid_eq_faces_only(self, o, same) ==
  IF same THEN TRUE
  ELSE IF AttrDiffers(self, o, "faces") THEN FALSE
  ELSE TRUE

\* Grid.__eq__(self, o); same: self is o
Grid_eq(self, o, same) ==
  IF same THEN TRUE
  ELSE IF AttrDiffers(self, o, "nodes") THEN FALSE
  ELSE IF AttrDiffers(self, o, "faces") THEN FALSE
  ELSE TRUE

(***************************************************************************)
(* The inputs of the Grid state machine.                                   *)
(***************************************************************************)
Faces1 == Array(<<1, 3>>, <<0, 1, 2>>)
FacesOtherValue == Array(<<1, 3>>, <<0, 1, 3>>)
FacesOtherShape == Array(<<3, 1>>, <<0, 1, 2>>)
Nodes1 == Array(<<2, 2>>, <<10, 20, 11, 21>>)
Nodes2 == Array(<<2, 2>>, <<10, 20, 11, 22>>)

GridKwargs ==
  { [faces |-> Some(Faces1), nodes |-> Some(Nodes1)],
    [faces |-> Some(Faces1), nodes |-> Some(Nodes1), name |-> "inlet",
     filename |-> Some("u.nc")],
    [faces |-> Some(Faces1), nodes |-> Some(Nodes2)],
    [faces |-> Some(FacesOtherValue), nodes |-> Some(Nodes1)],
    [faces |-> Some(FacesOtherShape), nodes |-> None],
    [faces |-> Some(Faces1)],
    [nodes |-> Some(Nodes1)] }

Files ==
  [x \in {"u.nc", "s.nc", "empty.nc"} |->
     MakeDataset(CASE x = "u.nc" -> {"lon", "lat", "nv"}
                   [] x = "s.nc" -> {"lon", "lat", "lon_rho", "lat_rho"}
                   [] OTHER -> {},
                 MaxN, "N2_3N", "none", EmptyDict)]

SavedDicts ==
  { [json_ |-> "full", filename |-> Some("u.nc")],
    [json_ |-> "full", filename |-> Some("u.nc"), name |-> "saved", id |-> "id7"],
    [json_ |-> "full", filename |-> Some("s.nc")],
    [json_ |-> "full", filename |-> Some("empty.nc")] }

InitGrid ==
  /\ call = [op |-> "start"]
  /\ grids = <<>>
  /\ def_count = [Grid |-> 0]

\* Grid(**kwargs), Grid_U(**kwargs)
NewGrid ==
  /\ Len(grids) < MaxGrids
  /\ \E cls \in {"Grid", "Grid_U"}, kwargs \in GridKwargs :
       LET made == Construct(def_count, cls, kwargs)
       IN /\ grids' = Append(grids, made.grid)
          /\ def_count' = made.counts
          /\ call' = [op |-> "__init__", cls |-> cls, made |-> Len(grids) + 1]

\* Grid.from_netCDF(filename, grid_type=...)
FromNetCDF ==
  /\ Len(grids) < MaxGrids
  /\ \E filename \in DOMAIN Files, grid_type \in {None, Some("ROMS")} :
       LET made == from_netCDF(Files, def_count, Some(filename), None, grid_type, None)
       IN IF made.ok
          THEN /\ grids' = Append(grids, [made.value.grid EXCEPT !.via = "from_netCDF"])
               /\ def_count' = made.value.counts
               /\ call' = [op |-> "from_netCDF", made |-> Len(grids) + 1]
          ELSE /\ call' = [op |-> "from_netCDF", error |-> made]
               /\ UNCHANGED <<grids, def_count>>

\* Grid.new_from_dict(dict_)
NewFromDict ==
  /\ Len(grids) < MaxGrids
  /\ \E dict_ \in SavedDicts :
       LET made == new_from_dict(Files, def_count, dict_)
       IN IF made.ok
          THEN /\ grids' = Append(grids, made.value.grid)
               /\ def_count' = made.value.counts
               /\ call' = [op |-> "new_from_dict", made |-> Len(grids) + 1]
          ELSE /\ call' = [op |-> "new_from_dict", error |-> made]
               /\ UNCHANGED <<grids, def_count>>

\* grids[i] == grids[j]
Eq ==
  /\ \E i \in DOMAIN grids, j \in DOMAIN grids :
       call' = [op |-> "__eq__", self |-> i, o |-> j,
                result |-> Grid_eq(grids[i], grids[j], i = j)]
  /\ UNCHANGED <<grids, def_count>>

NextGrid == NewGrid \/ FromNetCDF \/ NewFromDict \/ Eq

SpecGrid == InitGrid /\ [][NextGrid]_vars

(***************************************************************************)
(* Claims about Grid objects (under SpecGrid).                             *)
(***************************************************************************)
EqDone == call.op = "__eq__"
Self == grids[call.self]
Other == grids[call.o]
\* both grids define attribute n (it is present and not None)
BothDefine(n) ==
  /\ n \in DOMAIN Self.attrs /\ n \in DOMAIN Other.attrs
  /\ ~IsNone(Self.attrs[n]) /\ ~IsNone(Other.attrs[n])

\* C9 as stated: grids with faces arrays of the same shape and values are
\* equal whatever their other attributes, grids whose faces arrays differ in
\* shape or value are unequal, and a grid is equal to itself.
C9_Original ==
  EqDone =>
    /\ call.self = call.o => call.result
    /\ (BothDefine("faces") /\ Self.attrs["faces"] = Other.attrs["faces"])
         => call.result
    /\ (BothDefine("faces") /\ Self.attrs["faces"] # Other.attrs["faces"])
         => ~call.result

\* C9 amended: two distinct grids are equal exactly when their nodes arrays
\* and their faces arrays, each compared only where both grids define it,
\* have the same shape and values, whatever their other attributes (name,
\* filename); a grid is equal to itself.
C9_EqualityOnNodesAndFaces ==
  EqDone =>
    call.result =
      ( \/ call.self = call.o
        \/ \A n \in {"nodes", "faces"} :
             BothDefine(n) => Self.attrs[n] = Other.attrs[n] )

C9_Witness ==
  /\ EqDone
  /\ call.self # call.o
  /\ BothDefine("faces") /\ BothDefine("nodes")
  /\ Self.attrs["faces"] = Other.attrs["faces"]
  /\ Self.attrs["nodes"] = Other.attrs["nodes"]
  /\ Self.attrs["name"] # Other.attrs["name"]
  /\ Self.attrs["filename"] # Other.attrs["filename"]
  /\ call.result

Made(cls) == {i \in DOMAIN grids : grids[i].cls = cls}
Reconstructed(cls) == {i \in Made(cls) : grids[i].via = "new_from_dict"}

\* C10: the default-name counter of a class goes up by one per construction
\* and a reconstruction leaves it net unchanged, and no two grids of one
\* class that carry a generated default name carry the same name.
C10_CounterAvoidsCollisions ==
  /\ \A cls \in {"Grid_U", "Grid_S"} :
       ClassCount(def_count, cls)
         = Cardinality(Made(cls)) - Cardinality(Reconstructed(cls))
  /\ \A i \in DOMAIN grids : \A j \in DOMAIN grids :
       ( /\ i # j
         /\ grids[i].cls = grids[j].cls
         /\ grids[i].auto_name /\ grids[j].auto_name )
         => grids[i].attrs["name"] # grids[j].attrs["name"]

====
